---- MODULE Spec2Model ----
(***************************************************************************)
(* IgniteImpl (modules/platforms/cpp/core/src/impl/ignite_impl.cpp): the   *)
(* session handle, its two lazy bindings txImpl / prjImpl, the factories   *)
(* InternalGetTransactions / InternalGetProjection, GetCompute and the     *)
(* destructor, run by several application threads against a JNI gateway    *)
(* whose answers are chosen nondeterministically.                          *)
(***************************************************************************)
EXTENDS Integers, Sequences, FiniteSets, TLC

\* ---------------------------------------------------------------- bounds
NThreads == 2
MaxCalls == 2

Threads == 1..NThreads

\* ------------------------------------------------------------- constants
NullRef == 0
\* the jobject handed to the constructor (P1)
javaRef == 1

Bindings == {"txImpl", "prjImpl"}

\* JniErrorInfo as the gateway fills it in; the default-constructed value
\* stands for "no descriptor".
NoDescriptor == [code |-> 0, errCls |-> "NULL", errMsg |-> "NULL"]
Descriptors == { [code |-> 7, errCls |-> "X", errMsg |-> "boom"] }

NoError == [code |-> 0, cls |-> "", msg |-> ""]
NoRet == [kind |-> "none", view |-> 0, err |-> NoError, str |-> ""]

VARIABLES
    env,            \* the shared IgniteEnvironment: instance name, configuration
    envAlive,       \* the IgniteEnvironment has not been destroyed
    alive,          \* the IgniteImpl has not been destroyed
    lazyState,      \* per binding: Empty, Constructing, Ready, Failed
    lazyVal,        \* per binding: the cached view (index into views), 0 if none
    lazyErr,        \* per binding: the cached failure
    views,          \* every view object ever built: [kind, ref]
    nextRef,        \* the next fresh jobject the gateway hands out
    calls,          \* the boundary calls issued, in order
    released,       \* the jobjects passed to JniContext::Release, in order
    pc,             \* per thread: position in its accessor call
    op,             \* per thread: the accessor it is running
    callId,         \* per thread: number of its accessor call
    waited,         \* per thread: its Get() found the binding Constructing
    ret,            \* per thread: what its accessor call returned
    jref,           \* per thread: factory local txJavaRef / clusterGroupJavaRef
    jniErr,         \* per thread: factory local jniErr
    tmp,            \* per thread: the temporary prjImpl.Get() of GetCompute
    serversCluster, \* per thread: the local serversCluster of GetCompute
    nStarted        \* accessor calls made so far

vars == <<env, envAlive, alive, lazyState, lazyVal, lazyErr, views, nextRef, calls,
          released, pc, op, callId, waited, ret, jref, jniErr, tmp, serversCluster,
          nStarted>>

handleVars == <<env, alive, lazyState, lazyVal, lazyErr>>
localVars == <<jref, jniErr, tmp, serversCluster>>

\* ------------------------------------------------------------ helpers
RECURSIVE CountIn(_, _)
CountIn(s, x) ==
    IF s = <<>> THEN 0
    ELSE (IF Head(s) = x THEN 1 ELSE 0) + CountIn(Tail(s), x)

\* The number of shares of view v: the binding that caches it (while the
\* handle lives), the threads whose result it is, and the threads holding it
\* in a local of GetCompute.
HolderCount(v) ==
    Cardinality({b \in Bindings : alive /\ lazyState[b] = "Ready" /\ lazyVal[b] = v})
    + Cardinality({t \in Threads : ret[t].kind = "view" /\ ret[t].view = v})
    + Cardinality({t \in Threads : tmp[t] = v \/ serversCluster[t] = v})

\* A view releases its jobject when its last share is dropped.
ReleaseIfLast(v) ==
    IF v # 0 /\ HolderCount(v) = 1 THEN <<views[v].ref>> ELSE <<>>

\* The shares of the environment: the handle's member env, every living view
\* that was given one, and every compute view a caller holds.
EnvShares ==
    (IF alive THEN 1 ELSE 0)
    + Cardinality({v \in DOMAIN views : views[v].env /\ HolderCount(v) > 0})
    + Cardinality({t \in Threads : ret[t].kind = "compute"})

\* The environment is destroyed with its last share.
EnvSurvives == envAlive' = (envAlive /\ EnvShares' > 0)

\* ------------------------------------------------------------ Init
Init ==
    /\ env = [name |-> "grid", cfg |-> "config"]
    /\ envAlive = TRUE
    /\ alive = TRUE
    /\ lazyState = [b \in Bindings |-> "Empty"]
    /\ lazyVal = [b \in Bindings |-> 0]
    /\ lazyErr = [b \in Bindings |-> NoError]
    /\ views = <<>>
    /\ nextRef = javaRef + 1
    /\ calls = <<>>
    /\ released = <<>>
    /\ pc = [t \in Threads |-> "idle"]
    /\ op = [t \in Threads |-> "none"]
    /\ callId = [t \in Threads |-> 0]
    /\ waited = [t \in Threads |-> FALSE]
    /\ ret = [t \in Threads |-> NoRet]
    /\ jref = [t \in Threads |-> NullRef]
    /\ jniErr = [t \in Threads |-> NoDescriptor]
    /\ tmp = [t \in Threads |-> 0]
    /\ serversCluster = [t \in Threads |-> 0]
    /\ nStarted = 0

\* ------------------------------------------------------------ gateway
\* What JniContext::ProcessorXxx can answer: a fresh non-null jobject, or null
\* with an error descriptor, or null with jniErr left as constructed.
GatewayAnswers ==
    {[res |-> nextRef, err |-> NoDescriptor]}
    \cup {[res |-> NullRef, err |-> d] : d \in Descriptors \cup {NoDescriptor}}

ProcessorCall(t, name, peer, ans) ==
    /\ calls' = Append(calls, [op |-> name, ref |-> peer, call |-> callId[t],
                               res |-> ans.res, err |-> ans.err,
                               stale |-> CountIn(released, peer) > 0])
    /\ nextRef' = IF ans.res = NullRef THEN nextRef ELSE nextRef + 1

\* IgniteError::SetError(code, cls, msg, err)
SetError(code, errCls, errMsg) == [code |-> code, cls |-> errCls, msg |-> errMsg]

\* ------------------------------------------------------------ pure parts
\* both bindings bound to the same factory
FactoryOfSameFactory(b) == "InternalGetTransactions"

\* the two binds crossed
FactoryOfCrossed(b) ==
    IF b = "txImpl" THEN "InternalGetProjection" ELSE "InternalGetTransactions"

\* the constructor's binds: txImpl.Init(InternalGetTransactions), prjImpl.Init(InternalGetProjection)
FactoryOf(b) ==
    IF b = "txImpl" THEN "InternalGetTransactions" ELSE "InternalGetProjection"

\* GetCompute resolving the wrong binding
ComputeBindingTx == "txImpl"

\* GetCompute resolves prjImpl
ComputeBinding == "prjImpl"

BindingOf(a) ==
    CASE a = "GetTransactions" -> "txImpl"
      [] a = "GetClusterGroup" -> "prjImpl"
      [] OTHER -> ComputeBinding

\* the null check left out
IsNullNever(ref) == FALSE

\* the null check inverted into "always failed"
IsNullAlways(ref) == TRUE

\* if (!txJavaRef) / if (!clusterGroupJavaRef)
IsNull(ref) == ref = NullRef

\* class name and message passed in the wrong order
TranslatedErrorSwapped(e) == SetError(e.code, e.errMsg, e.errCls)

\* IgniteError::SetError(jniErr.code, jniErr.errCls, jniErr.errMsg, err)
TranslatedError(e) == SetError(e.code, e.errCls, e.errMsg)

\* the view built around the handle's own reference
NewTransactionsImplOwnRef(ownRef, txJavaRef) ==
    [kind |-> "TransactionsImpl", ref |-> ownRef, env |-> TRUE]

\* new transactions::TransactionsImpl(env, txJavaRef)
NewTransactionsImpl(ownRef, txJavaRef) ==
    [kind |-> "TransactionsImpl", ref |-> txJavaRef, env |-> TRUE]

\* the view built without a share of the environment
NewClusterGroupImplNoShare(ownRef, clusterGroupJavaRef) ==
    [kind |-> "ClusterGroupImpl", ref |-> clusterGroupJavaRef, env |-> FALSE]

\* new cluster::ClusterGroupImpl(env, clusterGroupJavaRef): the view holds a
\* share of env
NewClusterGroupImpl(ownRef, clusterGroupJavaRef) ==
    [kind |-> "ClusterGroupImpl", ref |-> clusterGroupJavaRef, env |-> TRUE]

\* the destructor releasing javaRef a second time
DestructorReleasesTwice == <<javaRef, javaRef>>

\* the destructor releasing the bindings' references too, resolved or not
DestructorReleasesAll ==
    <<javaRef>> \o [i \in 1..2 |->
                      LET v == lazyVal[IF i = 1 THEN "prjImpl" ELSE "txImpl"]
                      IN IF v = 0 THEN NullRef ELSE views[v].ref]

\* ~IgniteImpl: JniContext::Release(javaRef)
DestructorReleases == <<javaRef>>

\* ------------------------------------------------------------ Lazy<T>::Get
\* What the accessor of thread t, running a, does with the outcome of Lazy::Get.
GetReturns(t, a, state, val, err) ==
    IF state = "Failed"
    THEN /\ pc' = [pc EXCEPT ![t] = "done"]
         /\ ret' = [ret EXCEPT ![t] = [NoRet EXCEPT !.kind = "error", !.err = err]]
         /\ tmp' = tmp
    ELSE IF a = "GetCompute"
    THEN /\ pc' = [pc EXCEPT ![t] = "forServers"]
         /\ ret' = ret
         /\ tmp' = [tmp EXCEPT ![t] = val]
    ELSE /\ pc' = [pc EXCEPT ![t] = "done"]
         /\ ret' = [ret EXCEPT ![t] = [NoRet EXCEPT !.kind = "view", !.view = val]]
         /\ tmp' = tmp

\* Lazy<T>::Get() entered by accessor a: the first caller takes the binding
\* from Empty to Constructing and runs the factory, a caller that finds it
\* Constructing waits, a later caller reads what is cached.
LazyGet(t, a) ==
    LET b == BindingOf(a) IN
    CASE lazyState[b] = "Empty" ->
           /\ lazyState' = [lazyState EXCEPT ![b] = "Constructing"]
           /\ pc' = [pc EXCEPT ![t] = "factory"]
           /\ UNCHANGED <<ret, tmp, waited>>
      [] lazyState[b] = "Constructing" ->
           /\ pc' = [pc EXCEPT ![t] = "waiting"]
           /\ waited' = [waited EXCEPT ![t] = TRUE]
           /\ UNCHANGED <<lazyState, ret, tmp>>
      [] OTHER ->
           /\ GetReturns(t, a, lazyState[b], lazyVal[b], lazyErr[b])
           /\ UNCHANGED <<lazyState, waited>>

LazyWait(t) ==
    LET b == BindingOf(op[t]) IN
    /\ pc[t] = "waiting"
    /\ lazyState[b] \in {"Ready", "Failed"}
    /\ GetReturns(t, op[t], lazyState[b], lazyVal[b], lazyErr[b])
    /\ UNCHANGED <<envAlive, handleVars, views, nextRef, calls, released,
                   op, callId, waited, jref, jniErr, serversCluster, nStarted>>

\* ------------------------------------------------------------ accessors
\* An accessor call begins: it goes straight into Get() of its binding.
Call(t, a) ==
    /\ alive
    /\ pc[t] = "idle"
    /\ nStarted < MaxCalls
    /\ nStarted' = nStarted + 1
    /\ op' = [op EXCEPT ![t] = a]
    /\ callId' = [callId EXCEPT ![t] = nStarted + 1]
    /\ LazyGet(t, a)
    /\ UNCHANGED <<envAlive, env, alive, lazyVal, lazyErr, views, nextRef, calls, released,
                   jref, jniErr, serversCluster>>

GetTransactions(t) == Call(t, "GetTransactions")

GetClusterGroup(t) == Call(t, "GetClusterGroup")

GetCompute(t) == Call(t, "GetCompute")

\* GetName reading the wrong member of the environment
GetNameWrongField(t) ==
    /\ alive
    /\ pc[t] = "idle"
    /\ nStarted < MaxCalls
    /\ nStarted' = nStarted + 1
    /\ pc' = [pc EXCEPT ![t] = "done"]
    /\ op' = [op EXCEPT ![t] = "GetName"]
    /\ ret' = [ret EXCEPT ![t] = [NoRet EXCEPT !.kind = "string", !.str = env.cfg]]
    /\ UNCHANGED <<envAlive, handleVars, views, nextRef, calls, released, callId, waited, localVars>>

GetName(t) ==
    /\ alive
    /\ pc[t] = "idle"
    /\ nStarted < MaxCalls
    /\ nStarted' = nStarted + 1
    /\ pc' = [pc EXCEPT ![t] = "done"]
    /\ op' = [op EXCEPT ![t] = "GetName"]
    /\ ret' = [ret EXCEPT ![t] = [NoRet EXCEPT !.kind = "string", !.str = env.name]]
    /\ UNCHANGED <<envAlive, handleVars, views, nextRef, calls, released, callId, waited, localVars>>

GetConfiguration(t) ==
    /\ alive
    /\ pc[t] = "idle"
    /\ nStarted < MaxCalls
    /\ nStarted' = nStarted + 1
    /\ pc' = [pc EXCEPT ![t] = "done"]
    /\ op' = [op EXCEPT ![t] = "GetConfiguration"]
    /\ ret' = [ret EXCEPT ![t] = [NoRet EXCEPT !.kind = "string", !.str = env.cfg]]
    /\ UNCHANGED <<envAlive, handleVars, views, nextRef, calls, released, callId, waited, localVars>>

\* The factory threw: the binding keeps the failure, the accessor raises it.
Throw(t, err) ==
    LET b == BindingOf(op[t]) IN
    /\ lazyState' = [lazyState EXCEPT ![b] = "Failed"]
    /\ lazyErr' = [lazyErr EXCEPT ![b] = err]
    /\ GetReturns(t, op[t], "Failed", 0, err)
    /\ UNCHANGED <<lazyVal, views>>

\* The factory returned a new view: the binding caches it, the accessor goes on.
Construct(t, view) ==
    LET b == BindingOf(op[t])
        v == Len(views) + 1 IN
    /\ views' = Append(views, view)
    /\ lazyState' = [lazyState EXCEPT ![b] = "Ready"]
    /\ lazyVal' = [lazyVal EXCEPT ![b] = v]
    /\ GetReturns(t, op[t], "Ready", v, NoError)
    /\ UNCHANGED lazyErr

\* ------------------------------------------------------------ factories
InternalGetTransactions_Call(t) ==
    /\ pc[t] = "factory"
    /\ FactoryOf(BindingOf(op[t])) = "InternalGetTransactions"
    /\ \E ans \in GatewayAnswers :
          /\ ProcessorCall(t, "ProcessorTransactions", javaRef, ans)
          /\ jref' = [jref EXCEPT ![t] = ans.res]
          /\ jniErr' = [jniErr EXCEPT ![t] = ans.err]
    /\ pc' = [pc EXCEPT ![t] = "called"]
    /\ UNCHANGED <<envAlive, handleVars, views, released, op, callId, waited, ret, tmp,
                   serversCluster, nStarted>>

\* the throw left out: the factory goes on to build the view
InternalGetTransactions_ReturnNoThrow(t) ==
    /\ pc[t] = "called"
    /\ FactoryOf(BindingOf(op[t])) = "InternalGetTransactions"
    /\ Construct(t, NewTransactionsImpl(javaRef, jref[t]))
    /\ jref' = [jref EXCEPT ![t] = NullRef]
    /\ jniErr' = [jniErr EXCEPT ![t] = NoDescriptor]
    /\ UNCHANGED <<envAlive, env, alive, nextRef, calls, released, op, callId, waited,
                   serversCluster, nStarted>>

InternalGetTransactions_Return(t) ==
    /\ pc[t] = "called"
    /\ FactoryOf(BindingOf(op[t])) = "InternalGetTransactions"
    /\ IF IsNull(jref[t])
       THEN Throw(t, TranslatedError(jniErr[t]))
       ELSE Construct(t, NewTransactionsImpl(javaRef, jref[t]))
    /\ jref' = [jref EXCEPT ![t] = NullRef]
    /\ jniErr' = [jniErr EXCEPT ![t] = NoDescriptor]
    /\ UNCHANGED <<envAlive, env, alive, nextRef, calls, released, op, callId, waited,
                   serversCluster, nStarted>>

\* the factory waiting for a reference instead of throwing on null
InternalGetProjection_ReturnStuck(t) ==
    /\ pc[t] = "called"
    /\ FactoryOf(BindingOf(op[t])) = "InternalGetProjection"
    /\ ~IsNull(jref[t])
    /\ Construct(t, NewClusterGroupImpl(javaRef, jref[t]))
    /\ jref' = [jref EXCEPT ![t] = NullRef]
    /\ jniErr' = [jniErr EXCEPT ![t] = NoDescriptor]
    /\ UNCHANGED <<envAlive, env, alive, nextRef, calls, released, op, callId, waited,
                   serversCluster, nStarted>>

\* the error thrown without being filled in from jniErr
InternalGetProjection_ReturnNoSetError(t) ==
    /\ pc[t] = "called"
    /\ FactoryOf(BindingOf(op[t])) = "InternalGetProjection"
    /\ IF IsNull(jref[t])
       THEN Throw(t, NoError)
       ELSE Construct(t, NewClusterGroupImpl(javaRef, jref[t]))
    /\ jref' = [jref EXCEPT ![t] = NullRef]
    /\ jniErr' = [jniErr EXCEPT ![t] = NoDescriptor]
    /\ UNCHANGED <<envAlive, env, alive, nextRef, calls, released, op, callId, waited,
                   serversCluster, nStarted>>

InternalGetProjection_Call(t) ==
    /\ pc[t] = "factory"
    /\ FactoryOf(BindingOf(op[t])) = "InternalGetProjection"
    /\ \E ans \in GatewayAnswers :
          /\ ProcessorCall(t, "ProcessorProjection", javaRef, ans)
          /\ jref' = [jref EXCEPT ![t] = ans.res]
          /\ jniErr' = [jniErr EXCEPT ![t] = ans.err]
    /\ pc' = [pc EXCEPT ![t] = "called"]
    /\ UNCHANGED <<envAlive, handleVars, views, released, op, callId, waited, ret, tmp,
                   serversCluster, nStarted>>

\* the factory asking the gateway again after a null answer
InternalGetProjection_ReturnRetry(t) ==
    /\ pc[t] = "called"
    /\ FactoryOf(BindingOf(op[t])) = "InternalGetProjection"
    /\ IF IsNull(jref[t])
       THEN /\ pc' = [pc EXCEPT ![t] = "factory"]
            /\ UNCHANGED <<lazyState, lazyVal, lazyErr, views, ret, tmp>>
       ELSE Construct(t, NewClusterGroupImpl(javaRef, jref[t]))
    /\ jref' = [jref EXCEPT ![t] = NullRef]
    /\ jniErr' = [jniErr EXCEPT ![t] = NoDescriptor]
    /\ UNCHANGED <<envAlive, env, alive, nextRef, calls, released, op, callId, waited,
                   serversCluster, nStarted>>

InternalGetProjection_Return(t) ==
    /\ pc[t] = "called"
    /\ FactoryOf(BindingOf(op[t])) = "InternalGetProjection"
    /\ IF IsNull(jref[t])
       THEN Throw(t, TranslatedError(jniErr[t]))
       ELSE Construct(t, NewClusterGroupImpl(javaRef, jref[t]))
    /\ jref' = [jref EXCEPT ![t] = NullRef]
    /\ jniErr' = [jniErr EXCEPT ![t] = NoDescriptor]
    /\ UNCHANGED <<envAlive, env, alive, nextRef, calls, released, op, callId, waited,
                   serversCluster, nStarted>>

\* ------------------------------------------------------------ GetCompute
\* GetCompute taking the compute view of the whole cluster group, ForServers() left out
GetCompute_ForServersSkipped(t) ==
    /\ pc[t] = "forServers"
    /\ pc' = [pc EXCEPT ![t] = "getCompute"]
    /\ serversCluster' = [serversCluster EXCEPT ![t] = tmp[t]]
    /\ tmp' = [tmp EXCEPT ![t] = 0]
    /\ UNCHANGED <<envAlive, handleVars, views, nextRef, calls, released, op, callId, waited,
                   ret, jref, jniErr, nStarted>>

\* prjImpl.Get().Get()->ForServers(): one boundary call on the cluster group's
\* jobject; the temporary share of the cluster group ends with the statement.
GetCompute_ForServers(t) ==
    /\ pc[t] = "forServers"
    /\ \E ans \in GatewayAnswers :
          /\ ProcessorCall(t, "ForServers", views[tmp[t]].ref, ans)
          /\ IF ans.res = NullRef
             THEN /\ pc' = [pc EXCEPT ![t] = "done"]
                  /\ ret' = [ret EXCEPT ![t] =
                               [NoRet EXCEPT !.kind = "error",
                                             !.err = SetError(ans.err.code, ans.err.errCls,
                                                             ans.err.errMsg)]]
                  /\ UNCHANGED <<views, serversCluster>>
             ELSE /\ pc' = [pc EXCEPT ![t] = "getCompute"]
                  /\ views' = Append(views, NewClusterGroupImpl(views[tmp[t]].ref, ans.res))
                  /\ serversCluster' = [serversCluster EXCEPT ![t] = Len(views) + 1]
                  /\ ret' = ret
    /\ released' = released \o ReleaseIfLast(tmp[t])
    /\ tmp' = [tmp EXCEPT ![t] = 0]
    /\ UNCHANGED <<handleVars, op, callId, waited, jref, jniErr, nStarted>>
    /\ EnvSurvives

\* return serversCluster.Get()->GetCompute(); the local serversCluster ends.
GetCompute_Return(t) ==
    /\ pc[t] = "getCompute"
    /\ pc' = [pc EXCEPT ![t] = "done"]
    /\ ret' = [ret EXCEPT ![t] =
                 [NoRet EXCEPT !.kind = "compute", !.view = serversCluster[t]]]
    /\ released' = released \o ReleaseIfLast(serversCluster[t])
    /\ serversCluster' = [serversCluster EXCEPT ![t] = 0]
    /\ UNCHANGED <<handleVars, views, nextRef, calls, op, callId, waited, jref, jniErr,
                   tmp, nStarted>>
    /\ EnvSurvives

\* The caller lets go of what its accessor call returned.
Drop(t) ==
    /\ pc[t] = "done"
    /\ pc' = [pc EXCEPT ![t] = "idle"]
    /\ op' = [op EXCEPT ![t] = "none"]
    /\ callId' = [callId EXCEPT ![t] = 0]
    /\ waited' = [waited EXCEPT ![t] = FALSE]
    /\ ret' = [ret EXCEPT ![t] = NoRet]
    /\ released' = released \o
          (IF ret[t].kind = "view" THEN ReleaseIfLast(ret[t].view) ELSE <<>>)
    /\ UNCHANGED <<handleVars, views, nextRef, calls, localVars, nStarted>>
    /\ EnvSurvives

\* ------------------------------------------------------------ destruction
\* A binding's share of its cached view ends with the handle.
BindingReleases(b) ==
    IF lazyState[b] = "Ready" THEN ReleaseIfLast(lazyVal[b]) ELSE <<>>

\* ~IgniteImpl(): the body, then the members in reverse order of declaration.
Destructor ==
    /\ alive
    /\ alive' = FALSE
    /\ released' = released \o DestructorReleases
                     \o BindingReleases("prjImpl") \o BindingReleases("txImpl")
    /\ UNCHANGED <<env, lazyState, lazyVal, lazyErr, views, nextRef, calls,
                   pc, op, callId, waited, ret, localVars, nStarted>>
    /\ EnvSurvives

Quiescent == \A t \in Threads : pc[t] \in {"idle", "done"}

\* The handle is destroyed by its owner when no accessor call is running.
Destroy == Quiescent /\ Destructor

\* The handle is destroyed while an accessor call is running on it.
DestroyRacing == ~Quiescent /\ Destructor

\* A thread running on a destroyed handle may fault instead of going on with
\* what is left of the object in memory.
Fault(t) ==
    /\ ~alive
    /\ pc[t] \notin {"idle", "done", "fault"}
    /\ pc' = [pc EXCEPT ![t] = "fault"]
    /\ UNCHANGED <<envAlive, handleVars, views, nextRef, calls, released, op, callId, waited, ret,
                   localVars, nStarted>>

\* ------------------------------------------------------------ Next, Spec
Step(t) ==
    \/ GetTransactions(t)
    \/ GetClusterGroup(t)
    \/ GetCompute(t)
    \/ GetName(t)
    \/ GetConfiguration(t)
    \/ LazyWait(t)
    \/ InternalGetTransactions_Call(t)
    \/ InternalGetTransactions_Return(t)
    \/ InternalGetProjection_Call(t)
    \/ InternalGetProjection_Return(t)
    \/ GetCompute_ForServers(t)
    \/ GetCompute_Return(t)
    \/ Drop(t)

Next == (\E t \in Threads : Step(t)) \/ Destroy

Spec == Init /\ [][Next]_vars

NextRacing == Next \/ DestroyRacing \/ (\E t \in Threads : Fault(t))

SpecRacing == Init /\ [][NextRacing]_vars

\* What a thread inside an accessor call does next; every boundary call is one
\* step, so it has returned when the step is taken.
Progress(t) ==
    \/ LazyWait(t)
    \/ InternalGetTransactions_Call(t)
    \/ InternalGetTransactions_Return(t)
    \/ InternalGetProjection_Call(t)
    \/ InternalGetProjection_Return(t)
    \/ GetCompute_ForServers(t)
    \/ GetCompute_Return(t)

\* Every thread that can go on inside its accessor call eventually does.
SpecFair == Spec /\ \A t \in Threads : WF_vars(Progress(t))

\* ------------------------------------------------------------ properties
\* The boundary operation each binding's resolution stands for.
ExpectedOp(b) ==
    IF b = "txImpl" THEN "ProcessorTransactions" ELSE "ProcessorProjection"

AccessorBinding(a) == IF a = "GetTransactions" THEN "txImpl" ELSE "prjImpl"

CallsOf(o) == {i \in DOMAIN calls : calls[i].op = o}

CallsIn(c) == {i \in DOMAIN calls : calls[i].call = c}

Returned(t) == pc[t] = "done" /\ op[t] \in {"GetTransactions", "GetClusterGroup"}

\* C1: however many threads call Get() on a binding that is still
\* unconstructed, its factory runs once: one boundary call of the binding's
\* operation is issued, and every call returns the one cached instance, or the
\* one cached failure.
C1_FactoryRunsOnce ==
    /\ \A b \in Bindings :
          /\ Cardinality(CallsOf(ExpectedOp(b))) <= 1
          /\ lazyState[b] \in {"Ready", "Failed"}
                => Cardinality(CallsOf(ExpectedOp(b))) = 1
          /\ lazyState[b] = "Empty" => CallsOf(ExpectedOp(b)) = {}
    /\ \A t \in Threads :
          Returned(t) =>
             LET b == AccessorBinding(op[t]) IN
             /\ ret[t].kind = "view"
                   => lazyState[b] = "Ready" /\ ret[t].view = lazyVal[b]
             /\ ret[t].kind = "error"
                   => lazyState[b] = "Failed" /\ ret[t].err = lazyErr[b]
             /\ ret[t].kind \in {"view", "error"}
    /\ \A t1, t2 \in Threads :
          Returned(t1) /\ Returned(t2) /\ op[t1] = op[t2] => ret[t1] = ret[t2]

\* Two threads raced for the first Get() of prjImpl and both have returned.
C1_Witness ==
    \E t1, t2 \in Threads :
       /\ t1 # t2
       /\ Returned(t1) /\ Returned(t2)
       /\ op[t1] = "GetClusterGroup" /\ op[t2] = "GetClusterGroup"
       /\ ~waited[t1] /\ waited[t2]
       /\ ret[t1].kind = "view" /\ ret[t2] = ret[t1]
       /\ Cardinality(CallsOf("ProcessorProjection")) = 1

SameFields(err, d) ==
    err.code = d.code /\ err.cls = d.errCls /\ err.msg = d.errMsg

\* C2: the failure raised for a failed ProcessorTransactions or
\* ProcessorProjection call carries the code, class name and message the
\* gateway returned, unchanged.
C2_ErrorVerbatim ==
    /\ \A b \in Bindings :
          lazyState[b] = "Failed" =>
             \E i \in CallsOf(ExpectedOp(b)) :
                calls[i].res = NullRef /\ SameFields(lazyErr[b], calls[i].err)
    /\ \A t \in Threads :
          Returned(t) /\ ret[t].kind = "error" =>
             \E i \in CallsOf(ExpectedOp(AccessorBinding(op[t]))) :
                calls[i].res = NullRef /\ SameFields(ret[t].err, calls[i].err)

\* A caller holds the failure (7, "X", "boom") of a failed boundary call.
C2_Witness ==
    \E t \in Threads :
       /\ Returned(t)
       /\ ret[t].kind = "error"
       /\ ret[t].err = [code |-> 7, cls |-> "X", msg |-> "boom"]
       /\ \E i \in DOMAIN calls : calls[i].err.code = 7

\* C3: a boundary call that returned a null reference, with or without a
\* descriptor, ends the resolution in a failure; no view wraps a null
\* reference and none is cached for that binding.
C3_NullIsFailure ==
    /\ \A v \in DOMAIN views : views[v].ref # NullRef
    /\ \A b \in Bindings :
          \A i \in CallsOf(ExpectedOp(b)) :
             calls[i].res = NullRef =>
                /\ lazyVal[b] = 0
                /\ lazyState[b] # "Ready"
                /\ \/ lazyState[b] = "Failed"
                   \/ \E t \in Threads :
                         pc[t] = "called" /\ callId[t] = calls[i].call
                /\ \A t \in Threads :
                      pc[t] = "done" /\ callId[t] = calls[i].call
                         => ret[t].kind = "error"

\* The gateway returned null and no descriptor, and the caller got a failure.
C3_Witness ==
    \E t \in Threads :
       /\ Returned(t)
       /\ ret[t].kind = "error"
       /\ \E i \in CallsIn(callId[t]) :
             calls[i].res = NullRef /\ calls[i].err = NoDescriptor

Ops == [i \in DOMAIN calls |-> calls[i].op]

C5_ReleasedOnce ==
    /\ alive => CountIn(released, javaRef) = 0
    /\ ~alive => CountIn(released, javaRef) = 1

\* The handle was destroyed after javaRef had been used in a boundary call.
C5_Witness ==
    /\ ~alive
    /\ \E i \in DOMAIN calls : calls[i].ref = javaRef
    /\ CountIn(released, javaRef) = 1

\* C6: no boundary call is issued on javaRef after JniContext::Release(javaRef),
\* also when the handle is destroyed while a factory is running.
C6_NoUseAfterRelease ==
    \A i \in DOMAIN calls : ~calls[i].stale

\* C7: destroying a handle neither of whose bindings holds a view releases
\* javaRef and nothing else, and issues no boundary call.
C7_DestroyUnresolved ==
    [][ (alive /\ ~alive' /\ \A b \in Bindings : lazyState[b] # "Ready")
           => /\ released' = Append(released, javaRef)
              /\ calls' = calls
              /\ views' = views ]_vars

\* A handle whose bindings were never resolved has been destroyed.
C7_Witness ==
    /\ ~alive
    /\ \A b \in Bindings : lazyState[b] = "Empty"
    /\ released = <<javaRef>>
    /\ calls = <<>>

Issued == 1..(nextRef - 1)

LiveViews(r) == {v \in DOMAIN views : views[v].ref = r /\ HolderCount(v) > 0}

InTransit(r) == {t \in Threads : pc[t] = "called" /\ jref[t] = r}

OwnerCount(r) ==
    (IF r = javaRef /\ alive THEN 1 ELSE 0)
    + Cardinality(LiveViews(r)) + Cardinality(InTransit(r))

\* C8: every reference that has not been released has one owner, the handle
\* for javaRef and one view for each reference a boundary call returned (the
\* factory's local until the view is built); no view wraps javaRef, no two
\* views wrap the same reference, and no reference is released twice.
C8_SingleOwner ==
    /\ \A v \in DOMAIN views :
          /\ views[v].ref # javaRef
          /\ \E i \in DOMAIN calls : calls[i].res = views[v].ref
    /\ \A v1, v2 \in DOMAIN views : v1 # v2 => views[v1].ref # views[v2].ref
    /\ \A r \in Issued :
          /\ CountIn(released, r) <= 1
          /\ CountIn(released, r) = 0 => OwnerCount(r) = 1
          /\ CountIn(released, r) = 1 => OwnerCount(r) = 0

\* Both bindings hold a view while the handle lives.
C8_Witness ==
    /\ alive
    /\ \A b \in Bindings : lazyState[b] = "Ready"
    /\ Len(views) = 2

\* C9: one accessor call issues each boundary operation at most once, and after
\* a boundary call of it has failed it issues none: the failure is what it
\* returns.
C9_NoLocalRetry ==
    /\ \A i, j \in DOMAIN calls :
          i < j /\ calls[i].call = calls[j].call
             => calls[i].op # calls[j].op /\ calls[i].res # NullRef
    /\ \A i \in DOMAIN calls :
          calls[i].res = NullRef =>
             \A t \in Threads :
                callId[t] = calls[i].call =>
                   /\ pc[t] \in {"called", "done"}
                   /\ pc[t] = "done" => ret[t].kind = "error"

\* An accessor call returned a failure after its one boundary call failed.
C9_Witness ==
    \E t \in Threads :
       /\ pc[t] = "done"
       /\ ret[t].kind = "error"
       /\ Cardinality(CallsIn(callId[t])) = 1
       /\ \E i \in CallsIn(callId[t]) : calls[i].res = NullRef

IsRead(t, a) == pc[t] = "idle" /\ pc'[t] = "done" /\ op'[t] = a

\* C10: GetName() and GetConfiguration() can be called in every state of a
\* live handle, return the environment's instance name and configuration,
\* issue no boundary call and change nothing of the handle.
C10_PureReads ==
    /\ [](\A t \in Threads :
             alive /\ pc[t] = "idle" /\ nStarted < MaxCalls
                => ENABLED GetName(t) /\ ENABLED GetConfiguration(t))
    /\ [][\A t \in Threads :
             /\ IsRead(t, "GetName") => ret'[t].kind = "string" /\ ret'[t].str = env.name
             /\ IsRead(t, "GetConfiguration")
                   => ret'[t].kind = "string" /\ ret'[t].str = env.cfg
             /\ IsRead(t, "GetName") \/ IsRead(t, "GetConfiguration")
                   => UNCHANGED <<handleVars, views, nextRef, calls, released,
                                  localVars>>]_vars

\* GetName() returned the instance name on a handle whose prjImpl is resolved.
C10_Witness ==
    \E t \in Threads :
       /\ pc[t] = "done" /\ op[t] = "GetName"
       /\ ret[t].str = env.name
       /\ lazyState["prjImpl"] = "Ready"

LastCallOf(o) == calls[CHOOSE i \in CallsOf(o) : \A j \in CallsOf(o) : j <= i]

\* A Get() of a, by thread t, that finds its binding resolved and returns at once.
GetsCached(t, a) ==
    /\ pc[t] = "idle"
    /\ pc'[t] \in {"done", "forServers"}
    /\ op'[t] = a

\* C11: a binding goes Empty -> Constructing -> Ready (the boundary call
\* returned a reference, which the cached view wraps) or Failed (it returned
\* null) and moves no further: a Ready binding keeps its view, every later
\* Get() returns that view without a boundary call, and a Failed binding keeps
\* its failure.
C11_BindingStateMachine ==
    [][\A b \in Bindings :
          /\ lazyState'[b] # lazyState[b] =>
                <<lazyState[b], lazyState'[b]>> \in
                   {<<"Empty", "Constructing">>, <<"Constructing", "Ready">>,
                    <<"Constructing", "Failed">>}
          /\ lazyState[b] = "Constructing" /\ lazyState'[b] = "Ready" =>
                /\ CallsOf(ExpectedOp(b)) # {}
                /\ LastCallOf(ExpectedOp(b)).res # NullRef
                /\ lazyVal'[b] \in DOMAIN views'
                /\ views'[lazyVal'[b]].ref = LastCallOf(ExpectedOp(b)).res
          /\ lazyState[b] = "Constructing" /\ lazyState'[b] = "Failed" =>
                /\ CallsOf(ExpectedOp(b)) # {}
                /\ LastCallOf(ExpectedOp(b)).res = NullRef
          /\ lazyState[b] = "Ready" => lazyVal'[b] = lazyVal[b]
          /\ lazyState[b] = "Failed" => lazyErr'[b] = lazyErr[b] /\ lazyVal'[b] = 0
          /\ \A t \in Threads :
                \A a \in {"GetTransactions", "GetClusterGroup", "GetCompute"} :
                   lazyState[b] = "Ready" /\ AccessorBinding(a) = b /\ GetsCached(t, a)
                      => /\ calls' = calls
                         /\ IF a = "GetCompute"
                            THEN tmp'[t] = lazyVal[b]
                            ELSE ret'[t].kind = "view" /\ ret'[t].view = lazyVal[b]]_vars

\* A Get() that began after the binding was Ready returned the cached view.
C11_Witness ==
    \E t \in Threads :
       /\ Returned(t)
       /\ ret[t].kind = "view"
       /\ ~waited[t]
       /\ CallsIn(callId[t]) = {}
       /\ ret[t].view = lazyVal[AccessorBinding(op[t])]

\* C12: after a failed construction the binding holds no value: a Get() on it
\* returns the cached failure, and no Get() ever returns a missing view or a
\* view around a null reference.
C12_NoStaleValue ==
    /\ \A b \in Bindings :
          /\ lazyState[b] = "Failed" => lazyVal[b] = 0
          /\ lazyState[b] = "Ready" =>
                lazyVal[b] \in DOMAIN views /\ views[lazyVal[b]].ref # NullRef
          /\ (\E i \in CallsOf(ExpectedOp(b)) : calls[i].res = NullRef)
                => lazyState[b] \in {"Constructing", "Failed"}
    /\ \A t \in Threads :
          Returned(t) =>
             LET b == AccessorBinding(op[t]) IN
             /\ lazyState[b] = "Failed" =>
                   ret[t].kind = "error" /\ ret[t].err = lazyErr[b]
             /\ ret[t].kind = "view" =>
                   /\ ret[t].view \in DOMAIN views
                   /\ views[ret[t].view].ref # NullRef
                   /\ lazyState[b] = "Ready"

\* A Get() that began after the construction had failed returned the failure.
C12_Witness ==
    \E t \in Threads :
       /\ Returned(t)
       /\ ret[t].kind = "error"
       /\ ~waited[t]
       /\ CallsIn(callId[t]) = {}
       /\ lazyState[AccessorBinding(op[t])] = "Failed"

\* The ForServers calls that returned a subgroup.
Subgroups == {i \in CallsOf("ForServers") : calls[i].res # NullRef}

\* C13: GetCompute() is not cached, its cluster group is: however many
\* GetCompute() calls succeed, ProcessorProjection is issued once, each call
\* issues its own ForServers on the cached cluster group's reference, and each
\* subgroup is a new view with a reference of its own, different from the
\* cluster group's and from every other subgroup's.
C13_ComputeNotCached ==
    /\ Cardinality(CallsOf("ProcessorProjection")) <= 1
    /\ \A i \in CallsOf("ForServers") :
          /\ Cardinality(CallsOf("ProcessorProjection")) = 1
          /\ lazyState["prjImpl"] = "Ready"
          /\ calls[i].ref = LastCallOf("ProcessorProjection").res
          /\ calls[i].ref = views[lazyVal["prjImpl"]].ref
          /\ \A j \in CallsOf("ForServers") : i # j => calls[i].call # calls[j].call
    /\ \A i \in Subgroups :
          /\ calls[i].res \notin {javaRef, calls[i].ref}
          /\ \A j \in Subgroups : i # j => calls[i].res # calls[j].res
          /\ \E v \in DOMAIN views :
                /\ views[v].ref = calls[i].res
                /\ v # lazyVal["prjImpl"]
                /\ \A w \in DOMAIN views : views[w].ref = calls[i].res => w = v
    /\ \A t \in Threads :
          pc[t] = "done" /\ op[t] = "GetCompute" /\ ret[t].kind = "compute" =>
             /\ \E i \in Subgroups :
                   calls[i].call = callId[t] /\ views[ret[t].view].ref = calls[i].res
             /\ ret[t].view # lazyVal["prjImpl"]

\* Two GetCompute() calls succeeded on one handle.
C13_Witness ==
    /\ Cardinality(Subgroups) = 2
    /\ Cardinality(CallsOf("ProcessorProjection")) = 1
    /\ \E t \in Threads :
          pc[t] = "done" /\ op[t] = "GetCompute" /\ ret[t].kind = "compute"

InCall(t) == pc[t] \in {"factory", "called", "waiting", "forServers", "getCompute"}

\* C14: every accessor call that has entered Get() eventually returns a value
\* or a failure; a caller that found the binding Constructing issues no
\* boundary call for it and gets what the binding caches.
C14_GetReturns ==
    /\ \A t \in Threads : InCall(t) ~> pc[t] = "done"
    /\ [](\A t \in Threads :
             waited[t] =>
                /\ \A i \in CallsIn(callId[t]) : calls[i].op = "ForServers"
                /\ pc[t] = "waiting" \/ lazyState[BindingOf(op[t])] \in {"Ready", "Failed"}
                /\ Returned(t) /\ ret[t].kind = "view"
                      => ret[t].view = lazyVal[BindingOf(op[t])]
                /\ pc[t] = "done" /\ ret[t].kind = "error" /\ CallsIn(callId[t]) = {}
                      => ret[t].err = lazyErr[BindingOf(op[t])])

\* A caller that lost the race for the first Get() has returned.
C14_Witness ==
    \E t \in Threads :
       /\ waited[t]
       /\ pc[t] = "done"
       /\ ret[t].kind \in {"view", "error"}
       /\ CallsIn(callId[t]) = {}

LiveView(v) == HolderCount(v) > 0

\* C15: the environment lives as long as the handle, a view built by a factory
\* or by ForServers, or a compute view lives, also after the handle has been
\* destroyed, and is destroyed when the last of them is gone.
C15_EnvironmentLifetime ==
    /\ alive => envAlive
    /\ \A v \in DOMAIN views : LiveView(v) => envAlive
    /\ \A t \in Threads : ret[t].kind = "compute" => envAlive
    /\ (~alive /\ (\A v \in DOMAIN views : ~LiveView(v))
               /\ (\A t \in Threads : ret[t].kind # "compute")) => ~envAlive

\* A caller still holds a view after the handle was destroyed.
C15_Witness ==
    /\ ~alive
    /\ envAlive
    /\ \E v \in DOMAIN views : LiveView(v)

Other(b) == IF b = "txImpl" THEN "prjImpl" ELSE "txImpl"

Accessors == {"GetTransactions", "GetClusterGroup", "GetCompute"}

\* Thread t takes a step of an accessor call on binding b.
ResolvingStep(t, b) ==
    /\ op'[t] \in Accessors
    /\ AccessorBinding(op'[t]) = b
    /\ pc[t] # "done"
    /\ pc'[t] # pc[t]

\* C16: a step that resolves one binding, to a view or to a failure, issues at
\* most a call of that binding's own operation (or the ForServers of
\* GetCompute) and leaves the other binding as it was; whatever state one
\* binding is in, the other can still be resolved.
C16_BindingsIndependent ==
    /\ [][\A t \in Threads : \A b \in Bindings :
             ResolvingStep(t, b) =>
                /\ lazyState'[Other(b)] = lazyState[Other(b)]
                /\ lazyVal'[Other(b)] = lazyVal[Other(b)]
                /\ lazyErr'[Other(b)] = lazyErr[Other(b)]
                /\ \/ calls' = calls
                   \/ /\ Len(calls') = Len(calls) + 1
                      /\ SubSeq(calls', 1, Len(calls)) = calls
                      /\ calls'[Len(calls')].op \in {ExpectedOp(b), "ForServers"}
                      /\ calls'[Len(calls')].op = "ForServers" => op[t] = "GetCompute"]_vars
    /\ [](\A t \in Threads : \A a \in {"GetTransactions", "GetClusterGroup"} :
             /\ alive /\ pc[t] = "idle" /\ nStarted < MaxCalls => ENABLED Call(t, a)
             /\ pc[t] = "factory" /\ op[t] = a
                   => ENABLED (InternalGetTransactions_Call(t) \/ InternalGetProjection_Call(t)))

\* The cluster group was resolved after the transactions resolution had failed.
C16_Witness ==
    /\ lazyState["txImpl"] = "Failed"
    /\ lazyState["prjImpl"] = "Ready"
    /\ \E i \in CallsOf("ProcessorTransactions") :
          \E j \in CallsOf("ProcessorProjection") : i < j

\* The failed ProcessorProjection call of accessor call c, if it made one.
FailedProjection(c) ==
    {i \in CallsIn(c) : calls[i].op = "ProcessorProjection" /\ calls[i].res = NullRef}

\* C17: a GetCompute() whose ProcessorProjection call failed returns the
\* failure translated from that call, issues no other boundary call, and no
\* step of GetCompute() touches txImpl or calls ProcessorTransactions.
C17_ComputeProjectionFailure ==
    /\ [](\A t \in Threads :
             op[t] = "GetCompute" /\ FailedProjection(callId[t]) # {} =>
                /\ CallsIn(callId[t]) = FailedProjection(callId[t])
                /\ Cardinality(CallsIn(callId[t])) = 1
                /\ pc[t] \in {"called", "done"}
                /\ pc[t] = "done" =>
                      /\ ret[t].kind = "error"
                      /\ \A i \in FailedProjection(callId[t]) :
                            SameFields(ret[t].err, calls[i].err))
    /\ [][\A t \in Threads :
             op'[t] = "GetCompute" /\ pc[t] # "done" /\ pc'[t] # pc[t] =>
                /\ lazyState'["txImpl"] = lazyState["txImpl"]
                /\ lazyVal'["txImpl"] = lazyVal["txImpl"]
                /\ lazyErr'["txImpl"] = lazyErr["txImpl"]
                /\ CallsOf("ProcessorTransactions")' = CallsOf("ProcessorTransactions")]_vars

\* GetCompute() returned the failure (7, "X", "boom") of its ProcessorProjection call.
C17_Witness ==
    \E t \in Threads :
       /\ pc[t] = "done" /\ op[t] = "GetCompute"
       /\ FailedProjection(callId[t]) # {}
       /\ ret[t].err = [code |-> 7, cls |-> "X", msg |-> "boom"]

====
